---- MODULE Spec2Model ----
(***************************************************************************)
(* Model of the archive.org collector (ArchiveOrgCollector): source        *)
(* registration (createSource) and the download orchestrator               *)
(* (downloadFiles) with its metadata fetcher (getArchiveData) and file     *)
(* streamer (downloadFile), against the persisted DataSource / Document    *)
(* store and the upstream archive service.                                 *)
(*                                                                         *)
(* Strings that the code takes apart are kept as sequences of their        *)
(* parts: a URL is the sequence of its "/"-separated segments              *)
(* ("https://archive.org/details/x" is <<"https:", "", "archive.org",      *)
(* "details", "x">>), a file name the sequence of its "."-separated parts. *)
(***************************************************************************)
EXTENDS Integers, Sequences, FiniteSets, TLC

\* ------------------------------------------------------------------ bounds
\* Largest number of files the upstream item lists in one metadata response.
MaxFiles == 3
\* Number of HTTP requests to POST /datasource/create that may overlap.
MaxCallers == 2

\* Number of downloadFiles invocations that run one after another.
MaxRuns == 2

\* Largest number of "/"-separated segments of a string handed to
\* getIdentifierFromUrl or, as config.url, to validateConfig.
MaxSegments == 6

\* Largest number of characters of a size that arrives as a string.
MaxSizeLen == 3

\* ------------------------------------------------------------ basic values
\* documentId before db.document.create resolved (let documentId = null).
NullId == 0

Batches == {"t1", "t2"}
\* The batch of a request to the task route that no other request overlaps.
OneBatch == {"t1"}
Callers == 1..MaxCallers
SourceIds == {"src-1"}
OutputDir == "./downloads"

Last(s) == s[Len(s)]

\* ------------------------------------------------------------------- URLs
Url(kind, tail) == <<"https:", "", "archive.org", kind>> \o tail

\* /^https:\/\/archive\.org\/(details|metadata)\/[^/]+$/
validUrlRegex(u) ==
    /\ Len(u) = 5
    /\ u[1] = "https:" /\ u[2] = "" /\ u[3] = "archive.org"
    /\ u[4] \in {"details", "metadata"}
    /\ u[5] # ""

\* configSchema: a strict object with the single key url, whose value passes
\* the refinement.
configSchema(c) == DOMAIN c = {"url"} /\ validUrlRegex(c.url)

\* Segments that end in "https:" (the pattern of getIdentifierFromUrl is not
\* anchored, so the match may start inside the first segment).
EndsWithHttps(seg) == seg \in {"https:", "xhttps:"}

\* Positions at which /https:\/\/archive\.org\/details\/([^/]+)/ matches.
MatchPositions(u) ==
    {i \in 1..Len(u) :
        /\ i + 4 <= Len(u)
        /\ EndsWithHttps(u[i]) /\ u[i+1] = "" /\ u[i+2] = "archive.org"
        /\ u[i+3] = "details" /\ u[i+4] # ""}

Min(S) == CHOOSE x \in S : \A y \in S : x <= y

\* getIdentifierFromUrl: match[1] of the leftmost match, or null (<<>> here:
\* the empty set of results is kept as the empty sequence).
getIdentifierFromUrl(u) ==
    IF MatchPositions(u) = {} THEN <<>> ELSE <<u[Min(MatchPositions(u)) + 4]>>

\* The configs handed to createSource and downloadFiles.
CfgDetails == [url |-> Url("details", <<"kuwaitalyawm">>)]
CfgMetadata == [url |-> Url("metadata", <<"kuwaitalyawm">>)]
CfgOther == [url |-> Url("details", <<"some-collection">>)]
CfgTrailing == [url |-> Url("details", <<"kuwaitalyawm", "extra">>)]
CfgExtraField == [url |-> Url("details", <<"kuwaitalyawm">>), name |-> "x"]
CfgWrongHost == [url |-> <<"https:", "", "example.com", "details", "x">>]
Configs == {CfgDetails, CfgMetadata, CfgOther, CfgTrailing, CfgExtraField,
            CfgWrongHost}

\* ------------------------------------------------------- upstream service
\* The i-th file the upstream item lists (RemoteFile: name and format; the
\* optional fields are left out).
FileAt(i) ==
    CASE i % 4 = 1 -> [name |-> <<"doc", "pdf">>, format |-> "Text PDF"]
      [] i % 4 = 2 -> [name |-> <<"README">>, format |-> "Unknown"]
      [] i % 4 = 3 -> [name |-> <<"notes", "txt">>, format |-> "Text"]
      [] OTHER     -> [name |-> <<"scan", "jp2", "zip">>, format |-> "ZIP"]

UpstreamFiles(n) == [i \in 1..n |-> FileAt(i)]

\* A metadata response body that carries every required field.
GoodBody(n) ==
    [created |-> 1, d1 |-> "ia600.us.archive.org", d2 |-> "ia800.us.archive.org",
     dir |-> "/12/items/foo", files |-> UpstreamFiles(n), files_count |-> n,
     item_last_updated |-> 1, item_size |-> 1, metadata |-> "item-metadata",
     server |-> "ia600.us.archive.org", uniq |-> 1,
     workable_servers |-> <<"ia600.us.archive.org">>]

Without(body, key) == [k \in DOMAIN body \ {key} |-> body[k]]

\* The same item after the upstream service moved it to another server.
MovedBody(n) ==
    [GoodBody(n) EXCEPT !.server = "ia800.us.archive.org",
                        !.dir = "/7/items/foo"]

\* What the metadata endpoint may answer: a transport failure (timeout,
\* connection error, non-2xx status) or a JSON body.
MetaResponses ==
    {[kind |-> "network"]}
    \cup {[kind |-> "json", body |-> GoodBody(n)] : n \in 0..MaxFiles}
    \cup {[kind |-> "json", body |-> Without(GoodBody(1), "files")],
          [kind |-> "json", body |-> Without(GoodBody(1), "server")]}

RequiredFields ==
    {"created", "d1", "d2", "dir", "files", "files_count", "item_last_updated",
     "item_size", "metadata", "server", "uniq", "workable_servers"}

\* archiveResponseSchema.safeParse(body).success
archiveResponseSchema(body) ==
    /\ RequiredFields \subseteq DOMAIN body
    /\ \A i \in 1..Len(body.files) :
          {"name", "format"} \subseteq DOMAIN body.files[i]

\* parsed.data: the keys of the schema (zod drops unknown keys).
ParsedData(body) == [k \in RequiredFields |-> body[k]]

\* The messages of the errors the collector throws.
ErrInvalidConfig == "Invalid configuration"
ErrInvalidUrl == "Invalid Archive.org URL"
ErrInvalidShape == "Invalid response structure from Archive.org"
ErrFetchFailed == "Failed to fetch metadata from Archive.org"
ErrDownloadFailed == "Failed to download file"
ErrPersistence == "PrismaClientError"
NoError == "none"

\* The body of the try block of getArchiveData, for the response r of
\* axiosInstance.get: the value it returns or the error it throws.
GetArchiveDataTry(r) ==
    IF r.kind = "network" THEN [thrown |-> "AxiosError"]
    ELSE IF ~archiveResponseSchema(r.body) THEN [thrown |-> ErrInvalidShape]
    ELSE [data |-> ParsedData(r.body)]

\* getArchiveData after the request: the catch block wraps whatever the try
\* block threw.
GetArchiveDataResult(r) ==
    IF "thrown" \in DOMAIN GetArchiveDataTry(r)
    THEN [thrown |-> ErrFetchFailed]
    ELSE GetArchiveDataTry(r)

\* ---------------------------------------------------------------- filters
\* file.name.endsWith("." + ext)
EndsWithExt(name, ext) == Len(name) >= 2 /\ Last(name) = ext

\* The fileFilter arguments: none, the one of POST /task/datasource/:id, and
\* a PDF-only predicate.
Filters == {"none", "pdfOrTxt", "pdf"}

FilterAccepts(filter, file) ==
    CASE filter = "none" -> TRUE
      [] filter = "pdfOrTxt" ->
            EndsWithExt(file.name, "pdf") \/ EndsWithExt(file.name, "txt")
      [] OTHER -> EndsWithExt(file.name, "pdf")

RECURSIVE FilterSeq(_, _)
\* Array.prototype.filter: the accepted elements, in order.
FilterSeq(filter, fs) ==
    IF fs = <<>> THEN <<>>
    ELSE IF FilterAccepts(filter, Head(fs))
         THEN <<Head(fs)>> \o FilterSeq(filter, Tail(fs))
         ELSE FilterSeq(filter, Tail(fs))

\* SelectFiles that ignores the fileFilter argument.
SelectFilesAll(filter, fs) == fs

\* fileFilter ? archiveData.files.filter(fileFilter) : archiveData.files
SelectFiles(filter, fs) == IF filter = "none" THEN fs ELSE FilterSeq(filter, fs)

\* `${uuidv4()}.${file.name.split('.').pop()}` under outputDir.
OutputPath(dir, uuid, name) == [dir |-> dir, uuid |-> uuid, ext |-> Last(name)]

\* getDownloadUrl without the "/" between dir and the file name.
getDownloadUrlNoSeparator(archiveData, fileName) ==
    <<"https://", archiveData.server, archiveData.dir, fileName>>

\* getDownloadUrl: `https://${server}${dir}/${fileName}`
getDownloadUrl(archiveData, fileName) ==
    <<"https://", archiveData.server, archiveData.dir, "/", fileName>>

\* ------------------------------------------------------------------ state
VARIABLES
    sources,      \* the DataSource rows, in insertion order: [id, type, config]
    docs,         \* the Document rows, in insertion order: [id, sourceId, path, status]
    uuids,        \* how many uuidv4() values have been generated
    cpc,          \* createSource, per caller: where the call stands
    ccfg,         \* createSource, per caller: the config argument
    cres,         \* createSource, per caller: what the call returned or threw
    raced,        \* urls for which a findFirst ran while another call for the
                  \* same url was between its findFirst and its create
    bpc,          \* downloadFiles, per batch: where the call stands
    args,         \* downloadFiles: [sourceId, config, outputDir, fileFilter]
    archiveData,  \* downloadFiles: the snapshot getArchiveData returned
    files,        \* downloadFiles: the selected files
    idx,          \* downloadFiles: position of the for loop in files
    documentId,   \* downloadFiles: documentId of the current iteration
    outputPath,   \* downloadFiles: outputPath of the current iteration
    successful,   \* downloadFiles: the successful list
    failed,       \* downloadFiles: the failed list
    err,          \* downloadFiles: the error thrown to the caller
    metaReqs,     \* the metadata requests issued, in order
    metaResp,     \* per batch: what the metadata endpoint answered
    fileReqs,     \* the file download requests issued, in order
    inflight,     \* the file download requests that have not settled
    attempts,     \* per batch: the settled attempts [name, path, outcome]
    dbLog,        \* the db.document calls, in order: [op, batch, id, status, ok]
    past,         \* the snapshots that earlier downloadFiles invocations got
    probe         \* a call of a pure function: [fn, arg, result]

sourceVars == <<sources, cpc, ccfg, cres, raced>>
batchVars == <<bpc, args, archiveData, files, idx, documentId, outputPath,
               successful, failed, err>>
netVars == <<metaReqs, metaResp, fileReqs, inflight>>
docVars == <<docs, uuids, attempts, dbLog>>
auxVars == <<past, probe>>
vars == <<sourceVars, batchVars, netVars, docVars, auxVars>>

NoArgs == [sourceId |-> "", config |-> [url |-> <<>>], outputDir |-> "",
           fileFilter |-> "none"]
NoData == [server |-> "", dir |-> "", files |-> <<>>]
NoPath == [dir |-> "", uuid |-> 0, ext |-> ""]
NoResult == [kind |-> "none"]
NoProbe == [fn |-> "none"]

\* The store is empty and no call is under way.
InitCollector ==
    /\ sources = <<>>
    /\ docs = <<>>
    /\ uuids = 0
    /\ cpc = [c \in Callers |-> "idle"]
    /\ ccfg = [c \in Callers |-> [url |-> <<>>]]
    /\ cres = [c \in Callers |-> NoResult]
    /\ raced = {}
    /\ bpc = [b \in Batches |-> "idle"]
    /\ args = [b \in Batches |-> NoArgs]
    /\ archiveData = [b \in Batches |-> NoData]
    /\ files = [b \in Batches |-> <<>>]
    /\ idx = [b \in Batches |-> 0]
    /\ documentId = [b \in Batches |-> NullId]
    /\ outputPath = [b \in Batches |-> NoPath]
    /\ successful = [b \in Batches |-> <<>>]
    /\ failed = [b \in Batches |-> <<>>]
    /\ err = [b \in Batches |-> NoError]
    /\ metaReqs = <<>>
    /\ metaResp = [b \in Batches |-> [kind |-> "none"]]
    /\ fileReqs = <<>>
    /\ inflight = {}
    /\ attempts = [b \in Batches |-> <<>>]
    /\ dbLog = <<>>
    /\ past = <<>>

Init == InitCollector /\ probe = NoProbe

\* ---------------------------------------------------------- downloadFiles
\* The for loop: the next iteration issues db.document.create, the end of
\* the list returns { successful, failed }.
LoopPc(i, selected) == IF i > Len(selected) THEN "returned" ELSE "create"

\* DownloadFilesStart that trusts the persisted config: no safeParse.
DownloadFilesStartNoRevalidate(b, sid, cfg, filter) ==
    /\ bpc[b] = "idle"
    /\ args' = [args EXCEPT ![b] = [sourceId |-> sid, config |-> cfg,
                                    outputDir |-> OutputDir,
                                    fileFilter |-> filter]]
    /\ IF getIdentifierFromUrl(cfg.url) = <<>>
       THEN /\ bpc' = [bpc EXCEPT ![b] = "thrown"]
            /\ err' = [err EXCEPT ![b] = ErrInvalidUrl]
            /\ UNCHANGED metaReqs
       ELSE /\ bpc' = [bpc EXCEPT ![b] = "meta"]
            /\ metaReqs' = Append(metaReqs,
                  [batch |-> b,
                   path |-> <<"metadata">> \o getIdentifierFromUrl(cfg.url)])
            /\ UNCHANGED err
    /\ UNCHANGED <<sourceVars, auxVars, docVars, archiveData, files, idx, documentId,
                   outputPath, successful, failed, metaResp, fileReqs,
                   inflight>>

\* downloadFiles up to its first await: configSchema.safeParse, then
\* getArchiveData up to axiosInstance.get.
DownloadFilesStart(b, sid, cfg, filter) ==
    /\ bpc[b] = "idle"
    /\ args' = [args EXCEPT ![b] = [sourceId |-> sid, config |-> cfg,
                                    outputDir |-> OutputDir,
                                    fileFilter |-> filter]]
    /\ IF ~configSchema(cfg)
       THEN /\ bpc' = [bpc EXCEPT ![b] = "thrown"]
            /\ err' = [err EXCEPT ![b] = ErrInvalidConfig]
            /\ UNCHANGED metaReqs
       ELSE IF getIdentifierFromUrl(cfg.url) = <<>>
       THEN /\ bpc' = [bpc EXCEPT ![b] = "thrown"]
            /\ err' = [err EXCEPT ![b] = ErrInvalidUrl]
            /\ UNCHANGED metaReqs
       ELSE /\ bpc' = [bpc EXCEPT ![b] = "meta"]
            /\ metaReqs' = Append(metaReqs,
                  [batch |-> b,
                   path |-> <<"metadata">> \o getIdentifierFromUrl(cfg.url)])
            /\ UNCHANGED err
    /\ UNCHANGED <<sourceVars, auxVars, docVars, archiveData, files, idx, documentId,
                   outputPath, successful, failed, metaResp, fileReqs,
                   inflight>>

\* MetadataSettles that keeps the snapshot of the previous invocation when
\* there is one, instead of the one just fetched.
MetadataSettlesCached(b, r) ==
    /\ bpc[b] = "meta"
    /\ metaResp' = [metaResp EXCEPT ![b] = r]
    /\ IF "thrown" \in DOMAIN GetArchiveDataResult(r)
       THEN /\ bpc' = [bpc EXCEPT ![b] = "thrown"]
            /\ err' = [err EXCEPT ![b] = GetArchiveDataResult(r).thrown]
            /\ UNCHANGED <<archiveData, files, idx>>
       ELSE LET data == IF past # <<>> /\ past[Len(past)] # NoData
                        THEN past[Len(past)]
                        ELSE GetArchiveDataResult(r).data
                selected == SelectFiles(args[b].fileFilter, data.files)
            IN /\ archiveData' = [archiveData EXCEPT ![b] = data]
               /\ files' = [files EXCEPT ![b] = selected]
               /\ idx' = [idx EXCEPT ![b] = 1]
               /\ bpc' = [bpc EXCEPT ![b] = LoopPc(1, selected)]
               /\ UNCHANGED err
    /\ UNCHANGED <<sourceVars, auxVars, docVars, args, documentId, outputPath,
                   successful, failed, metaReqs, fileReqs, inflight>>

\* The metadata request settles with r: getArchiveData returns or throws,
\* and downloadFiles selects the files and enters the loop.
MetadataSettles(b, r) ==
    /\ bpc[b] = "meta"
    /\ metaResp' = [metaResp EXCEPT ![b] = r]
    /\ IF "thrown" \in DOMAIN GetArchiveDataResult(r)
       THEN /\ bpc' = [bpc EXCEPT ![b] = "thrown"]
            /\ err' = [err EXCEPT ![b] = GetArchiveDataResult(r).thrown]
            /\ UNCHANGED <<archiveData, files, idx>>
       ELSE LET data == GetArchiveDataResult(r).data
                selected == SelectFiles(args[b].fileFilter, data.files)
            IN /\ archiveData' = [archiveData EXCEPT ![b] = data]
               /\ files' = [files EXCEPT ![b] = selected]
               /\ idx' = [idx EXCEPT ![b] = 1]
               /\ bpc' = [bpc EXCEPT ![b] = LoopPc(1, selected)]
               /\ UNCHANGED err
    /\ UNCHANGED <<sourceVars, auxVars, docVars, args, documentId, outputPath,
                   successful, failed, metaReqs, fileReqs, inflight>>

\* ----------------------------------------------------- persistence (docs)
\* DocUpdate whose data object replaces the row: the path is lost.
DocUpdateOverwrites(d, id, status) ==
    [i \in DOMAIN d |->
        IF d[i].id = id
        THEN [d[i] EXCEPT !.status = status,
                          !.path = [dir |-> "", uuid |-> 0, ext |-> ""]]
        ELSE d[i]]

\* DocUpdate without its where clause: every row gets the status.
DocUpdateAll(d, id, status) ==
    [i \in DOMAIN d |-> [d[i] EXCEPT !.status = status]]

\* db.document.update({ where: { id }, data: { status } }) on the rows d.
DocUpdate(d, id, status) ==
    [i \in DOMAIN d |->
        IF d[i].id = id THEN [d[i] EXCEPT !.status = status] ELSE d[i]]

\* update rejects when no row has the id (a null id matches no row).
DocExists(d, id) == \E i \in DOMAIN d : d[i].id = id

DbCall(op, b, id, status, ok) ==
    [op |-> op, batch |-> b, id |-> id, status |-> status, ok |-> ok]

Attempt(b, outcome) ==
    [name |-> files[b][idx[b]].name, path |-> outputPath[b],
     outcome |-> outcome]

\* ------------------------------------------------- downloadFiles: the loop
\* CreateDocumentOk that does not await downloadFile: the loop goes on to
\* the next file while the stream is in flight.
CreateDocumentOkNoAwait(b) ==
    /\ bpc[b] = "create"
    /\ LET file == files[b][idx[b]]
           path == OutputPath(args[b].outputDir, uuids + 1, file.name)
           id == Len(docs) + 1
       IN /\ uuids' = uuids + 1
          /\ outputPath' = [outputPath EXCEPT ![b] = path]
          /\ docs' = Append(docs, [id |-> id, sourceId |-> args[b].sourceId,
                                   path |-> path, status |-> "DOWNLOADING"])
          /\ documentId' = [documentId EXCEPT ![b] = id]
          /\ dbLog' = Append(dbLog, DbCall("create", b, id, "DOWNLOADING", TRUE))
          /\ fileReqs' = Append(fileReqs,
                [batch |-> b, name |-> file.name, path |-> path,
                 url |-> getDownloadUrl(archiveData[b], file.name)])
          /\ inflight' = inflight \cup {<<b, idx[b]>>}
    /\ idx' = [idx EXCEPT ![b] = @ + 1]
    /\ bpc' = [bpc EXCEPT ![b] = LoopPc(idx[b] + 1, files[b])]
    /\ UNCHANGED <<sourceVars, auxVars, args, archiveData, files, successful,
                   failed, err, metaReqs, metaResp, attempts>>

\* CreateDocumentOk with documentId kept in a place every batch shares
\* instead of a variable of the iteration.
CreateDocumentOkSharedId(b) ==
    /\ bpc[b] = "create"
    /\ LET file == files[b][idx[b]]
           path == OutputPath(args[b].outputDir, uuids + 1, file.name)
           id == Len(docs) + 1
       IN /\ uuids' = uuids + 1
          /\ outputPath' = [outputPath EXCEPT ![b] = path]
          /\ docs' = Append(docs, [id |-> id, sourceId |-> args[b].sourceId,
                                   path |-> path, status |-> "DOWNLOADING"])
          /\ documentId' = [x \in Batches |-> id]
          /\ dbLog' = Append(dbLog, DbCall("create", b, id, "DOWNLOADING", TRUE))
          /\ fileReqs' = Append(fileReqs,
                [batch |-> b, name |-> file.name, path |-> path,
                 url |-> getDownloadUrl(archiveData[b], file.name)])
          /\ inflight' = inflight \cup {<<b, idx[b]>>}
    /\ bpc' = [bpc EXCEPT ![b] = "stream"]
    /\ UNCHANGED <<sourceVars, auxVars, args, archiveData, files, idx, successful,
                   failed, err, metaReqs, metaResp, attempts>>

\* One iteration up to the stream request: the file name is generated,
\* db.document.create resolves with the new row, and downloadFile issues
\* axios.get for the download url.
CreateDocumentOk(b) ==
    /\ bpc[b] = "create"
    /\ LET file == files[b][idx[b]]
           path == OutputPath(args[b].outputDir, uuids + 1, file.name)
           id == Len(docs) + 1
       IN /\ uuids' = uuids + 1
          /\ outputPath' = [outputPath EXCEPT ![b] = path]
          /\ docs' = Append(docs, [id |-> id, sourceId |-> args[b].sourceId,
                                   path |-> path, status |-> "DOWNLOADING"])
          /\ documentId' = [documentId EXCEPT ![b] = id]
          /\ dbLog' = Append(dbLog, DbCall("create", b, id, "DOWNLOADING", TRUE))
          /\ fileReqs' = Append(fileReqs,
                [batch |-> b, name |-> file.name, path |-> path,
                 url |-> getDownloadUrl(archiveData[b], file.name)])
          /\ inflight' = inflight \cup {<<b, idx[b]>>}
    /\ bpc' = [bpc EXCEPT ![b] = "stream"]
    /\ UNCHANGED <<sourceVars, auxVars, args, archiveData, files, idx, successful,
                   failed, err, metaReqs, metaResp, attempts>>

\* db.document.create rejects: documentId is still null in the catch block.
CreateDocumentFails(b) ==
    /\ bpc[b] = "create"
    /\ uuids' = uuids + 1
    /\ outputPath' = [outputPath EXCEPT ![b] =
          OutputPath(args[b].outputDir, uuids + 1, files[b][idx[b]].name)]
    /\ documentId' = [documentId EXCEPT ![b] = NullId]
    /\ dbLog' = Append(dbLog, DbCall("create", b, NullId, "DOWNLOADING", FALSE))
    /\ attempts' = [attempts EXCEPT ![b] = Append(@,
          [name |-> files[b][idx[b]].name, path |-> outputPath'[b],
           outcome |-> "nodocument"])]
    /\ bpc' = [bpc EXCEPT ![b] = "catch"]
    /\ UNCHANGED <<sourceVars, auxVars, docs, args, archiveData, files, idx, successful,
                   failed, err, netVars>>

\* downloadFile resolves: the path is pushed and the READY update is issued.
StreamCompletes(b) ==
    /\ bpc[b] = "stream"
    /\ inflight' = inflight \ {<<b, idx[b]>>}
    /\ successful' = [successful EXCEPT ![b] = Append(@, outputPath[b])]
    /\ attempts' = [attempts EXCEPT ![b] = Append(@, Attempt(b, "streamed"))]
    /\ bpc' = [bpc EXCEPT ![b] = "ready"]
    /\ UNCHANGED <<sourceVars, auxVars, docs, uuids, dbLog, args, archiveData, files,
                   idx, documentId, outputPath, failed, err, metaReqs,
                   metaResp, fileReqs>>

\* StreamFails without the try/catch of the iteration: the error of
\* downloadFile leaves downloadFiles.
StreamFailsEscapes(b) ==
    /\ bpc[b] = "stream"
    /\ inflight' = inflight \ {<<b, idx[b]>>}
    /\ attempts' = [attempts EXCEPT ![b] = Append(@, Attempt(b, "streamfailed"))]
    /\ bpc' = [bpc EXCEPT ![b] = "thrown"]
    /\ err' = [err EXCEPT ![b] = ErrDownloadFailed]
    /\ UNCHANGED <<sourceVars, auxVars, docs, uuids, dbLog, args, archiveData, files,
                   idx, documentId, outputPath, successful, failed,
                   metaReqs, metaResp, fileReqs>>

\* downloadFile throws (transport, HTTP status or filesystem error): the
\* catch block of the iteration is entered.
StreamFails(b) ==
    /\ bpc[b] = "stream"
    /\ inflight' = inflight \ {<<b, idx[b]>>}
    /\ attempts' = [attempts EXCEPT ![b] = Append(@, Attempt(b, "streamfailed"))]
    /\ bpc' = [bpc EXCEPT ![b] = "catch"]
    /\ UNCHANGED <<sourceVars, auxVars, docs, uuids, dbLog, args, archiveData, files,
                   idx, documentId, outputPath, successful, failed, err,
                   metaReqs, metaResp, fileReqs>>

\* db.document.update(READY) resolves: the iteration ends.
UpdateReadyOk(b) ==
    /\ bpc[b] = "ready"
    /\ DocExists(docs, documentId[b])
    /\ docs' = DocUpdate(docs, documentId[b], "READY")
    /\ dbLog' = Append(dbLog, DbCall("update", b, documentId[b], "READY", TRUE))
    /\ idx' = [idx EXCEPT ![b] = @ + 1]
    /\ bpc' = [bpc EXCEPT ![b] = LoopPc(idx[b] + 1, files[b])]
    /\ UNCHANGED <<sourceVars, auxVars, uuids, attempts, args, archiveData, files,
                   documentId, outputPath, successful, failed, err, netVars>>

\* db.document.update(READY) rejects: the catch block is entered, after the
\* path was pushed to successful.
UpdateReadyFails(b) ==
    /\ bpc[b] = "ready"
    /\ dbLog' = Append(dbLog, DbCall("update", b, documentId[b], "READY", FALSE))
    /\ bpc' = [bpc EXCEPT ![b] = "catch"]
    /\ UNCHANGED <<sourceVars, auxVars, docs, uuids, attempts, args, archiveData, files,
                   idx, documentId, outputPath, successful, failed, err,
                   netVars>>

\* The catch block: db.document.update(ERROR) resolves, the error is logged
\* and the loop goes on (nothing is pushed to failed).
UpdateErrorOk(b) ==
    /\ bpc[b] = "catch"
    /\ DocExists(docs, documentId[b])
    /\ docs' = DocUpdate(docs, documentId[b], "ERROR")
    /\ dbLog' = Append(dbLog, DbCall("update", b, documentId[b], "ERROR", TRUE))
    /\ idx' = [idx EXCEPT ![b] = @ + 1]
    /\ bpc' = [bpc EXCEPT ![b] = LoopPc(idx[b] + 1, files[b])]
    /\ UNCHANGED <<sourceVars, auxVars, uuids, attempts, args, archiveData, files,
                   documentId, outputPath, successful, failed, err, netVars>>

\* The catch block: db.document.update(ERROR) rejects (always when
\* documentId is null) and the rejection leaves downloadFiles.
UpdateErrorFails(b) ==
    /\ bpc[b] = "catch"
    /\ dbLog' = Append(dbLog, DbCall("update", b, documentId[b], "ERROR", FALSE))
    /\ bpc' = [bpc EXCEPT ![b] = "thrown"]
    /\ err' = [err EXCEPT ![b] = ErrPersistence]
    /\ UNCHANGED <<sourceVars, auxVars, docs, uuids, attempts, args, archiveData, files,
                   idx, documentId, outputPath, successful, failed, netVars>>

\* ------------------------------------------------------------ createSource
SourceType == "archive.org files"

\* validateConfig: parsed.data or null (<<>> here).
validateConfig(c) == IF configSchema(c) THEN <<[url |-> c.url]>> ELSE <<>>

\* FindMatches with another type tag in the where clause.
FindMatchesOtherType(rows, url) ==
    {i \in DOMAIN rows : rows[i].type = "archive.org" /\ rows[i].config.url = url}

\* The rows db.documentSource.findFirst may return for the url.
FindMatches(rows, url) ==
    {i \in DOMAIN rows : rows[i].type = SourceType /\ rows[i].config.url = url}

\* CreateSourceStart without validateConfig: findFirst is issued for
\* whatever config was passed.
CreateSourceStartNoValidation(c, cfg) ==
    /\ cpc[c] = "idle"
    /\ cpc' = [cpc EXCEPT ![c] = "find"]
    /\ ccfg' = [ccfg EXCEPT ![c] = cfg]
    /\ UNCHANGED <<sources, cres, raced, batchVars, netVars, docVars, auxVars>>

\* createSource up to its first await: the config is validated and, when
\* valid, findFirst is issued.
CreateSourceStart(c, cfg) ==
    /\ cpc[c] = "idle"
    /\ IF validateConfig(cfg) = <<>>
       THEN /\ cpc' = [cpc EXCEPT ![c] = "done"]
            /\ cres' = [cres EXCEPT ![c] =
                  [kind |-> "Error", message |-> ErrInvalidConfig]]
            /\ ccfg' = [ccfg EXCEPT ![c] = cfg]
       ELSE /\ cpc' = [cpc EXCEPT ![c] = "find"]
            /\ ccfg' = [ccfg EXCEPT ![c] = validateConfig(cfg)[1]]
            /\ UNCHANGED cres
    /\ UNCHANGED <<sources, raced, batchVars, netVars, docVars, auxVars>>

\* FindFirstFound that throws the DuplicateError without exists.id.
FindFirstFoundNoId(c) ==
    /\ cpc[c] = "find"
    /\ FindMatches(sources, ccfg[c].url) # {}
    /\ cres' = [cres EXCEPT ![c] = [kind |-> "DuplicateError", id |-> NullId]]
    /\ cpc' = [cpc EXCEPT ![c] = "done"]
    /\ UNCHANGED <<sources, ccfg, raced, batchVars, netVars, docVars, auxVars>>

\* findFirst resolves with a row: DuplicateError with the id of the row.
FindFirstFound(c) ==
    /\ cpc[c] = "find"
    /\ \E i \in FindMatches(sources, ccfg[c].url) :
          cres' = [cres EXCEPT ![c] =
                     [kind |-> "DuplicateError", id |-> sources[i].id]]
    /\ cpc' = [cpc EXCEPT ![c] = "done"]
    /\ UNCHANGED <<sources, ccfg, raced, batchVars, netVars, docVars, auxVars>>

\* findFirst resolves with null: db.documentSource.create is issued.
FindFirstNull(c) ==
    /\ cpc[c] = "find"
    /\ FindMatches(sources, ccfg[c].url) = {}
    /\ cpc' = [cpc EXCEPT ![c] = "create"]
    /\ raced' = IF \E d \in Callers \ {c} :
                     cpc[d] = "create" /\ ccfg[d].url = ccfg[c].url
                THEN raced \cup {ccfg[c].url} ELSE raced
    /\ UNCHANGED <<sources, ccfg, cres, batchVars, netVars, docVars, auxVars>>

\* db.documentSource.create resolves: the new row is returned.
CreateSourceInsert(c) ==
    /\ cpc[c] = "create"
    /\ sources' = Append(sources, [id |-> Len(sources) + 1,
                                   type |-> SourceType, config |-> ccfg[c]])
    /\ cres' = [cres EXCEPT ![c] = [kind |-> "ok", id |-> Len(sources) + 1]]
    /\ cpc' = [cpc EXCEPT ![c] = "done"]
    /\ UNCHANGED <<ccfg, raced, batchVars, netVars, docVars, auxVars>>

\* --------------------------------------------------------- specifications
Next ==
    \/ \E b \in OneBatch, sid \in SourceIds, cfg \in Configs, f \in Filters :
          DownloadFilesStart(b, sid, cfg, f)
    \/ \E b \in OneBatch, r \in MetaResponses : MetadataSettles(b, r)
    \/ \E b \in OneBatch : CreateDocumentOk(b)
    \/ \E b \in OneBatch : CreateDocumentFails(b)
    \/ \E b \in OneBatch : StreamCompletes(b)
    \/ \E b \in OneBatch : StreamFails(b)
    \/ \E b \in OneBatch : UpdateReadyOk(b)
    \/ \E b \in OneBatch : UpdateReadyFails(b)
    \/ \E b \in OneBatch : UpdateErrorOk(b)
    \/ \E b \in OneBatch : UpdateErrorFails(b)

\* The download orchestrator against the upstream service and the store.
Spec == Init /\ [][Next]_vars

\* The request batch b awaits settles: it completes or it fails.
Settles(b) ==
    \/ \E r \in MetaResponses : MetadataSettles(b, r)
    \/ CreateDocumentOk(b)
    \/ CreateDocumentFails(b)
    \/ StreamCompletes(b)
    \/ StreamFails(b)
    \/ UpdateReadyOk(b)
    \/ UpdateReadyFails(b)
    \/ UpdateErrorOk(b)
    \/ UpdateErrorFails(b)

\* The download orchestrator when every metadata request (10 s timeout),
\* file request (30 s timeout) and persistence call settles in finite time.
SpecLive == Spec /\ \A b \in OneBatch : WF_vars(Settles(b))

NextSource ==
    \/ \E c \in Callers, cfg \in Configs : CreateSourceStart(c, cfg)
    \/ \E c \in Callers : FindFirstFound(c)
    \/ \E c \in Callers : FindFirstNull(c)
    \/ \E c \in Callers : CreateSourceInsert(c)

\* Overlapping requests to createSource against the store.
SpecSource == Init /\ [][NextSource]_vars

\* ------------------------------------------------- observations per batch
\* The file download requests of batch b, in the order they were issued.
RequestsOf(b) == SelectSeq(fileReqs, LAMBDA r : r.batch = b)

\* The db.document calls of batch b, in the order they settled.
DbCallsOf(b) == SelectSeq(dbLog, LAMBDA e : e.batch = b)

\* The metadata requests of batch b.
MetaRequestsOf(b) == SelectSeq(metaReqs, LAMBDA r : r.batch = b)

\* A persistence call of batch b rejected.
DbRejected(b) == \E i \in DOMAIN dbLog : dbLog[i].batch = b /\ ~dbLog[i].ok

PreflightErrors == {ErrInvalidConfig, ErrInvalidUrl, ErrFetchFailed}

Names(s) == [i \in DOMAIN s |-> s[i].name]
Paths(s) == [i \in DOMAIN s |-> s[i].path]

\* ---------------------------------------------------------------- claims

\* C1: a failed stream never aborts the batch. In every batch in which no
\* persistence call rejected, downloadFiles throws only its pre-flight
\* errors, the file after a failed stream is attempted, and when the call
\* returns every selected file has been requested.
C1_StreamFailureNeverAborts ==
    \A b \in Batches :
        ~DbRejected(b) =>
            /\ bpc[b] = "thrown" => err[b] \in PreflightErrors
            /\ \A k \in DOMAIN attempts[b] :
                  (attempts[b][k].outcome = "streamfailed" /\ idx[b] > k
                     /\ k < Len(files[b]))
                  => \/ Len(RequestsOf(b)) > k
                     \/ bpc[b] = "create" /\ idx[b] = k + 1
            /\ bpc[b] = "returned" =>
                  Names(RequestsOf(b)) = Names(files[b])

C1_Witness ==
    \E b \in Batches :
        /\ bpc[b] = "returned"
        /\ ~DbRejected(b)
        /\ Len(attempts[b]) >= 2
        /\ attempts[b][1].outcome = "streamfailed"
        /\ attempts[b][2].outcome = "streamed"

RECURSIVE AttemptsWhere(_, _)
\* The attempts of s whose outcome is in the set outcomes, in order.
AttemptsWhere(s, outcomes) ==
    IF s = <<>> THEN <<>>
    ELSE IF Head(s).outcome \in outcomes
         THEN <<Head(s)>> \o AttemptsWhere(Tail(s), outcomes)
         ELSE AttemptsWhere(Tail(s), outcomes)

\* C2: when downloadFiles returns, failed holds exactly the remote names of
\* the selected files whose attempt failed, successful exactly the local
\* paths of those whose stream completed, and the two lists together count
\* every selected file once.
C2_ResultIsPartition ==
    \A b \in Batches :
        bpc[b] = "returned" =>
            /\ failed[b] = Names(AttemptsWhere(attempts[b],
                                  {"streamfailed", "nodocument"}))
            /\ successful[b] = Paths(AttemptsWhere(attempts[b], {"streamed"}))
            /\ Len(successful[b]) + Len(failed[b]) = Len(files[b])

\* C3: when db.document.create rejects for a file, no status update is
\* issued against the missing id, downloadFiles does not throw, and the
\* file counts as a failed file of the batch.
C3_CreateFailureIsGuarded ==
    \A b \in Batches :
        (\E k \in DOMAIN attempts[b] : attempts[b][k].outcome = "nodocument")
        => /\ \A i \in DOMAIN dbLog :
                 ~(dbLog[i].batch = b /\ dbLog[i].op = "update"
                     /\ dbLog[i].id = NullId)
           /\ bpc[b] # "thrown"

\* The attempts recorded in att that used the path p.
AttemptsAt(att, p) ==
    {a \in UNION {{att[b][k] : k \in DOMAIN att[b]} : b \in Batches} :
        a.path = p}

\* A READY update for the document id is recorded in log as rejected.
ReadyRejected(log, id) ==
    \E i \in DOMAIN log :
        log[i].op = "update" /\ log[i].id = id
          /\ log[i].status = "READY" /\ ~log[i].ok

\* The step from the unprimed to the primed state keeps the lifecycle.
LifecycleStep ==
    /\ Len(docs') >= Len(docs)
    /\ \A i \in DOMAIN docs :
          docs'[i].status # docs[i].status =>
              /\ docs[i].status = "DOWNLOADING"
              /\ docs'[i].status \in {"READY", "ERROR"}
    /\ \A i \in DOMAIN docs' \ DOMAIN docs :
          /\ docs'[i].status = "DOWNLOADING"
          /\ \A j \in DOMAIN fileReqs : fileReqs[j].path # docs'[i].path
    /\ \A j \in DOMAIN fileReqs' \ DOMAIN fileReqs :
          \E i \in DOMAIN docs' :
              /\ docs'[i].path = fileReqs'[j].path
              /\ docs'[i].status = "DOWNLOADING"
    /\ \A i \in DOMAIN docs' :
          /\ docs'[i].status = "READY" =>
                \E a \in AttemptsAt(attempts', docs'[i].path) :
                    a.outcome = "streamed"
          /\ docs'[i].status = "ERROR" =>
                \/ \E a \in AttemptsAt(attempts', docs'[i].path) :
                      a.outcome = "streamfailed"
                \/ ReadyRejected(dbLog', docs'[i].id)

\* C4: a Document is created as DOWNLOADING before its stream request is
\* issued, its status only ever goes from DOWNLOADING to READY or from
\* DOWNLOADING to ERROR (after the attempt failed), READY and ERROR are
\* final, and a Document is READY only if its stream completed.
C4_DocumentLifecycle == [][LifecycleStep]_vars

C4_Witness ==
    \E i, j \in DOMAIN docs :
        docs[i].status = "READY" /\ docs[j].status = "ERROR" /\ i < j

\* C7: a metadata response that fails the schema is reported as the
\* invalid-response-shape error, not as the fetch-failed error.
C7_ShapeFailureIsDistinct ==
    \A b \in Batches :
        (metaResp[b].kind = "json" /\ ~archiveResponseSchema(metaResp[b].body))
        => /\ bpc[b] = "thrown"
           /\ err[b] = ErrInvalidShape
           /\ err[b] # ErrFetchFailed

\* Batch b has touched neither the Document store nor the file servers.
NoBatchEffects(b) == DbCallsOf(b) = <<>> /\ RequestsOf(b) = <<>>

\* C8: a pre-flight failure (config rejected, identifier not resolved,
\* snapshot not fetched or not valid) is thrown to the caller and the batch
\* creates or updates no Document and requests no file; with a rejected
\* config no metadata request is issued either.
C8_PreflightHasNoEffects ==
    \A b \in Batches :
        /\ (bpc[b] # "idle" /\ ~configSchema(args[b].config)) =>
              /\ bpc[b] = "thrown" /\ err[b] = ErrInvalidConfig
              /\ NoBatchEffects(b) /\ MetaRequestsOf(b) = <<>>
        /\ (bpc[b] # "idle" /\ configSchema(args[b].config)
              /\ getIdentifierFromUrl(args[b].config.url) = <<>>) =>
              /\ bpc[b] = "thrown" /\ err[b] = ErrInvalidUrl
              /\ NoBatchEffects(b)
        /\ (metaResp[b].kind = "network"
              \/ (metaResp[b].kind = "json"
                    /\ ~archiveResponseSchema(metaResp[b].body))) =>
              /\ bpc[b] = "thrown" /\ err[b] \in PreflightErrors
              /\ NoBatchEffects(b)

C8_Witness ==
    \E b \in Batches :
        /\ bpc[b] = "thrown"
        /\ args[b].config = CfgExtraField
        /\ err[b] = ErrInvalidConfig

\* The names the batch has to request: the files of the answered snapshot
\* that the filter accepts, in snapshot order.
ExpectedNames(b) ==
    Names(FilterSeq(args[b].fileFilter, metaResp[b].body.files))

\* The ids of the Documents batch b created, in order.
CreatedOf(b) ==
    SelectSeq(DbCallsOf(b), LAMBDA e : e.op = "create" /\ e.ok)

\* C9: the stream requests of a batch are, in order and each once, the
\* files of the fetched snapshot that the filter accepts: never a rejected
\* file, never a file twice, one Document per requested file, and all of
\* them when the call returns (a batch that a rejected persistence call
\* ended early has requested a prefix of them).
C9_ExactlyTheSelectedFiles ==
    \A b \in Batches :
        (\/ bpc[b] \in {"create", "stream", "ready", "catch", "returned"}
         \/ bpc[b] = "thrown" /\ err[b] = ErrPersistence) =>
            LET reqs == RequestsOf(b)
            IN /\ Len(reqs) <= Len(ExpectedNames(b))
               /\ Names(reqs) = SubSeq(ExpectedNames(b), 1, Len(reqs))
               /\ Len(CreatedOf(b)) = Len(reqs)
               /\ \A j \in DOMAIN reqs :
                     \E i \in DOMAIN docs :
                         /\ docs[i].id = CreatedOf(b)[j].id
                         /\ docs[i].path = reqs[j].path
               /\ bpc[b] = "returned" => Len(reqs) = Len(ExpectedNames(b))

C9_Witness ==
    \E b \in Batches :
        /\ bpc[b] = "returned"
        /\ args[b].fileFilter = "pdfOrTxt"
        /\ Len(metaResp[b].body.files) = 3
        /\ Len(RequestsOf(b)) = 2
        /\ \E k \in DOMAIN attempts[b] : attempts[b][k].outcome = "streamfailed"

\* C10: a batch has at most one file download in flight, and it creates the
\* Document of the next file only after the stream of the previous file
\* settled and the status update of its Document was issued and settled.
C10_OneDownloadAtATime ==
    \A b \in Batches :
        /\ Cardinality({x \in inflight : x[1] = b}) <= 1
        /\ bpc[b] # "stream" => {x \in inflight : x[1] = b} = {}
        /\ LET calls == DbCallsOf(b)
           IN \A j \in DOMAIN calls :
                 (j > 1 /\ calls[j].op = "create") =>
                     /\ calls[j-1].op = "update"
                     /\ calls[j-1].ok
                     /\ \E i \in 1..(j-1) :
                           /\ calls[i].op = "create"
                           /\ calls[i].id = calls[j-1].id
                           /\ \A m \in (i+1)..(j-2) : calls[m].op = "update"

C10_Witness ==
    \E b \in Batches :
        /\ inflight = {<<b, 2>>}
        /\ Len(DbCallsOf(b)) = 3

\* ------------------------------------------ downloadFiles, run after run
\* What the metadata endpoint may answer from one run to the next: the item
\* on either server, with any number of files, or a transport failure.
RunResponses ==
    {[kind |-> "network"]}
    \cup {[kind |-> "json", body |-> GoodBody(n)] : n \in 0..MaxFiles}
    \cup {[kind |-> "json", body |-> MovedBody(n)] : n \in 0..MaxFiles}

\* The configs createSource persists for the item kuwaitalyawm, which
\* POST /task/datasource/:id hands to downloadFiles.
StoredConfigs ==
    {c \in Configs : validateConfig(c) # <<>> /\ Last(c.url) = "kuwaitalyawm"}

\* downloadFiles has returned or thrown: its frame is gone (every local is
\* back to its initial value) and the observations start again for the next
\* invocation; the Document rows and the generated uuids stay.
InvocationEnds(b) ==
    /\ bpc[b] \in {"returned", "thrown"}
    /\ Len(past) < MaxRuns - 1
    /\ past' = Append(past, archiveData[b])
    /\ bpc' = [bpc EXCEPT ![b] = "idle"]
    /\ args' = [args EXCEPT ![b] = NoArgs]
    /\ archiveData' = [archiveData EXCEPT ![b] = NoData]
    /\ files' = [files EXCEPT ![b] = <<>>]
    /\ idx' = [idx EXCEPT ![b] = 0]
    /\ documentId' = [documentId EXCEPT ![b] = NullId]
    /\ outputPath' = [outputPath EXCEPT ![b] = NoPath]
    /\ successful' = [successful EXCEPT ![b] = <<>>]
    /\ failed' = [failed EXCEPT ![b] = <<>>]
    /\ err' = [err EXCEPT ![b] = NoError]
    /\ metaReqs' = <<>>
    /\ metaResp' = [metaResp EXCEPT ![b] = [kind |-> "none"]]
    /\ fileReqs' = <<>>
    /\ attempts' = [attempts EXCEPT ![b] = <<>>]
    /\ dbLog' = <<>>
    /\ UNCHANGED <<sourceVars, docs, uuids, inflight, probe>>

NextRuns ==
    \/ \E b \in OneBatch, sid \in SourceIds, cfg \in StoredConfigs :
          DownloadFilesStart(b, sid, cfg, "pdfOrTxt")
    \/ \E b \in OneBatch, r \in RunResponses : MetadataSettles(b, r)
    \/ \E b \in OneBatch : CreateDocumentOk(b)
    \/ \E b \in OneBatch : CreateDocumentFails(b)
    \/ \E b \in OneBatch : StreamCompletes(b)
    \/ \E b \in OneBatch : StreamFails(b)
    \/ \E b \in OneBatch : UpdateReadyOk(b)
    \/ \E b \in OneBatch : UpdateReadyFails(b)
    \/ \E b \in OneBatch : UpdateErrorOk(b)
    \/ \E b \in OneBatch : UpdateErrorFails(b)
    \/ \E b \in OneBatch : InvocationEnds(b)

\* POST /task/datasource/:id called again and again for a registered source.
SpecRuns == Init /\ [][NextRuns]_vars

\* The source the request behind batch b may name: the second request is for
\* the source of the first or for another one.
TaskSourceIds(b) == IF b = "t1" THEN {"src-1"} ELSE {"src-1", "src-2"}

\* What the metadata endpoint answers to the overlapping batches.
TaskResponses ==
    {[kind |-> "network"]}
    \cup {[kind |-> "json", body |-> GoodBody(n)] : n \in {0, 1, MaxFiles}}

NextTasks ==
    \/ \E b \in Batches : \E sid \in TaskSourceIds(b) :
          DownloadFilesStart(b, sid, CfgDetails, "pdfOrTxt")
    \/ \E b \in Batches, r \in TaskResponses : MetadataSettles(b, r)
    \/ \E b \in Batches : CreateDocumentOk(b)
    \/ \E b \in Batches : CreateDocumentFails(b)
    \/ \E b \in Batches : StreamCompletes(b)
    \/ \E b \in Batches : StreamFails(b)
    \/ \E b \in Batches : UpdateReadyOk(b)
    \/ \E b \in Batches : UpdateReadyFails(b)
    \/ \E b \in Batches : UpdateErrorOk(b)
    \/ \E b \in Batches : UpdateErrorFails(b)

\* Two overlapping requests to POST /task/datasource/:id: their batches
\* interleave at every await.
SpecTasks == Init /\ [][NextTasks]_vars

\* The rows of the store that hold the url.
RowsFor(url) ==
    {i \in DOMAIN sources :
        sources[i].type = SourceType /\ sources[i].config.url = url}

\* C5 as stated: whatever the interleaving of createSource calls, the store
\* holds at most one DataSource per (type, config.url).
C5_AtMostOnePerUrl ==
    \A i, j \in DOMAIN sources :
        (sources[i].type = sources[j].type
           /\ sources[i].config.url = sources[j].config.url) => i = j

\* C5 amended: the store holds two DataSources for one (type, config.url)
\* only if a findFirst for that url ran while another createSource call for
\* the same url was between its findFirst and its create; calls that do not
\* overlap in this way keep at most one DataSource per pair.
C5_AtMostOnePerUrlUnlessRaced ==
    \A i, j \in DOMAIN sources :
        (sources[i].type = sources[j].type
           /\ sources[i].config.url = sources[j].config.url
           /\ i # j) => sources[i].config.url \in raced

C5_Witness ==
    \E c, d \in Callers :
        /\ c # d
        /\ cpc[c] = "done" /\ cpc[d] = "done"
        /\ cres[c].kind = "ok" /\ cres[d].kind = "DuplicateError"
        /\ ccfg[c] = ccfg[d]
        /\ Cardinality(RowsFor(ccfg[c].url)) = 1
        /\ raced = {}

\* The step from the unprimed to the primed state, for caller c.
RegistrationStep(c) ==
    /\ (cpc[c] = "find" /\ cpc'[c] # "find"
          /\ FindMatches(sources, ccfg[c].url) # {}) =>
          /\ cpc'[c] = "done"
          /\ cres'[c].kind = "DuplicateError"
          /\ \E i \in RowsFor(ccfg[c].url) : cres'[c].id = sources[i].id
          /\ sources' = sources
    /\ (cpc[c] = "find" /\ cpc'[c] # "find"
          /\ FindMatches(sources, ccfg[c].url) = {}) => cpc'[c] = "create"
    /\ (cpc[c] = "create" /\ cpc'[c] # "create") =>
          /\ cres'[c].kind = "ok"
          /\ sources' = Append(sources, [id |-> cres'[c].id,
                                         type |-> SourceType,
                                         config |-> ccfg[c]])
          /\ \A i \in DOMAIN sources : sources[i].id # cres'[c].id

\* C6: a createSource call that runs after a call with the same valid
\* config has returned fails with DuplicateError carrying the id of the row
\* the first call created, and leaves the store as it was; the first call
\* persists exactly one row and returns it.
C6_SecondCallIsDuplicate == [][\A c \in Callers : RegistrationStep(c)]_vars

C6_Witness ==
    \E c, d \in Callers :
        /\ c # d
        /\ cpc[c] = "done" /\ cpc[d] = "done"
        /\ cres[c].kind = "ok" /\ cres[d].kind = "DuplicateError"
        /\ cres[d].id = cres[c].id
        /\ ccfg[c] = CfgMetadata /\ ccfg[d] = CfgMetadata
        /\ Len(sources) = 1

\* The step from the unprimed to the primed state keeps every Document row
\* and its id, sourceId and path.
DocumentFrameStep ==
    /\ Len(docs') >= Len(docs)
    /\ \A i \in DOMAIN docs :
          /\ docs'[i].id = docs[i].id
          /\ docs'[i].sourceId = docs[i].sourceId
          /\ docs'[i].path = docs[i].path
    /\ \A i \in DOMAIN docs' \ DOMAIN docs :
          \A j \in DOMAIN docs : docs'[i].id # docs[j].id

\* C11: no Document is ever deleted and the id, sourceId and path of an
\* existing Document never change, run after run: the status is the only
\* field written after creation and the set of Documents only grows.
C11_DocumentsOnlyGrow == [][DocumentFrameStep]_vars

C11_Witness ==
    /\ Len(past) = 1
    /\ Len(docs) >= 3
    /\ docs[1].status = "READY"
    /\ docs[2].status = "ERROR"
    /\ docs[3].status = "READY"

\* The step from the unprimed to the primed state, for caller c: a rejected
\* config ends the call at once, and no query or row exists for one.
RejectionStep(c) ==
    /\ (cpc[c] = "idle" /\ cpc'[c] # "idle" /\ ~configSchema(ccfg'[c])) =>
          /\ cpc'[c] = "done"
          /\ cres'[c] = [kind |-> "Error", message |-> ErrInvalidConfig]
          /\ sources' = sources
    /\ cpc'[c] \in {"find", "create"} => configSchema(ccfg'[c])
    /\ cres'[c].kind \in {"ok", "DuplicateError"} => configSchema(ccfg'[c])
    /\ \A i \in DOMAIN sources' : configSchema(sources'[i].config)

\* C12: createSource with a config that validateConfig rejects throws the
\* invalid-configuration error before it touches the store: no findFirst is
\* issued and no DataSource is created.
C12_RejectedConfigTouchesNothing == [][\A c \in Callers : RejectionStep(c)]_vars

C12_Witness ==
    \E c, d \in Callers :
        /\ cpc[c] = "done" /\ ccfg[c] = CfgExtraField
        /\ cres[c].kind = "Error"
        /\ cpc[d] = "done" /\ cres[d].kind = "ok"
        /\ Len(sources) = 1

\* ------------------------------------------------- the pure functions
\* The segments the strings are made of.
UrlSegments ==
    {"https:", "", "archive.org", "details", "metadata", "kuwaitalyawm"}

\* Every string of at most MaxSegments segments ("" is the string of one
\* empty segment).
UrlStrings == UNION {[1..k -> UrlSegments] : k \in 1..MaxSegments}

\* JavaScript values, tagged with their type.
JsString(segs) == [t |-> "string", v |-> segs]
JsNumber(n) == [t |-> "number", v |-> n]
JsNull == [t |-> "null"]
JsObject(fields) == [t |-> "object", v |-> fields]

\* The values handed to validateConfig(config: unknown): objects with the
\* single key url, and values of every other shape.
ConfigValues ==
    {JsObject([url |-> JsString(u)]) : u \in UrlStrings}
    \cup {JsObject([url |-> JsString(CfgDetails.url), name |-> JsString(<<"x">>)]),
          JsObject([name |-> JsString(CfgDetails.url)]),
          JsObject([url |-> JsNumber(42)]),
          JsObject([url |-> JsNull]),
          JsString(CfgDetails.url), JsNumber(42), JsNull}

\* The object with its values untagged.
Untagged(fields) == [k \in DOMAIN fields |-> fields[k].v]

\* SafeParseConfig with a schema that is not strict: unknown keys are
\* stripped instead of rejected.
SafeParseConfigNonStrict(value) ==
    /\ value.t = "object"
    /\ "url" \in DOMAIN value.v
    /\ value.v.url.t = "string"
    /\ validUrlRegex(value.v.url.v)

\* configSchema.safeParse(value).success for a value of any type: z.object
\* wants an object, z.string a string, and then the checks of configSchema.
SafeParseConfig(value) ==
    /\ value.t = "object"
    /\ "url" \in DOMAIN value.v
    /\ value.v.url.t = "string"
    /\ configSchema(Untagged(value.v))

\* validateConfig(config: unknown): parsed.data or null (<<>> here).
ValidateConfigValue(value) ==
    IF SafeParseConfig(value) THEN <<[url |-> value.v.url.v]>> ELSE <<>>

\* ------------------------------------------------------- fileSchema.size
\* Numbers that are not integers: a fraction in lowest terms, and NaN.
JsFraction(num, den) == [t |-> "number", num |-> num, den |-> den]
JsNaN == [t |-> "number", nan |-> TRUE]
JsUndefined == [t |-> "undefined"]
ZodError == [t |-> "ZodError"]

\* The characters the size strings are made of.
SizeChars == {"1", "2", " ", "-", ".", "k"}

Digits == {"1", "2"}
DigitValue(c) == IF c = "1" THEN 1 ELSE 2

\* s without its leading white space.
RECURSIVE TrimStart(_)
TrimStart(s) ==
    IF s # <<>> /\ s[1] = " " THEN TrimStart(Tail(s)) ELSE s

\* The longest prefix of s made of digits.
RECURSIVE DigitPrefix(_)
DigitPrefix(s) ==
    IF s # <<>> /\ s[1] \in Digits
    THEN <<s[1]>> \o DigitPrefix(Tail(s)) ELSE <<>>

\* The number a sequence of digits denotes in base 10.
RECURSIVE DecimalValue(_)
DecimalValue(ds) ==
    IF ds = <<>> THEN 0
    ELSE 10 * DecimalValue(SubSeq(ds, 1, Len(ds) - 1)) + DigitValue(Last(ds))

\* parseInt(s, 10): leading white space is skipped, a sign is read, then the
\* longest run of digits; NaN when there is no digit, and whatever follows
\* the digits is ignored.
parseInt(s) ==
    LET t == TrimStart(s)
        negative == t # <<>> /\ t[1] = "-"
        body == IF negative THEN Tail(t) ELSE t
        ds == DigitPrefix(body)
    IN IF ds = <<>> THEN JsNaN
       ELSE JsNumber(IF negative THEN 0 - DecimalValue(ds) ELSE DecimalValue(ds))

\* fileSchema.shape.size.safeParse(value): the union accepts strings and
\* numbers, the transform parses the strings, and the field is optional.
ParseSize(value) ==
    CASE value.t = "undefined" -> JsUndefined
      [] value.t = "string" -> parseInt(value.v)
      [] value.t = "number" -> value
      [] OTHER -> ZodError

\* The sizes a metadata response may carry for a file: none, any string of
\* at most MaxSizeLen characters, integers, a fraction, and null.
SizeValues ==
    {JsString(cs) : cs \in UNION {[1..k -> SizeChars] : k \in 0..MaxSizeLen}}
    \cup {JsUndefined, JsNull, JsNumber(0), JsNumber(12345), JsFraction(25, 2)}

Call(fn, arg) == [fn |-> fn, arg |-> arg, done |-> FALSE, result |-> <<>>]

\* One call of a pure function is about to be made, on any of its inputs.
InitPure ==
    /\ InitCollector
    /\ \/ \E k \in 1..MaxSegments : \E u \in [1..k -> UrlSegments] :
             probe = Call("getIdentifierFromUrl", u)
       \/ \E v \in ConfigValues : probe = Call("validateConfig", v)
       \/ \E v \in SizeValues : probe = Call("fileSchema.size", v)

Returns(result) ==
    /\ ~probe.done
    /\ probe' = [probe EXCEPT !.done = TRUE, !.result = result]
    /\ UNCHANGED <<sourceVars, batchVars, netVars, docVars, past>>

GetIdentifierFromUrlReturns ==
    /\ probe.fn = "getIdentifierFromUrl"
    /\ Returns(getIdentifierFromUrl(probe.arg))

ValidateConfigReturns ==
    /\ probe.fn = "validateConfig"
    /\ Returns(ValidateConfigValue(probe.arg))

SizeParses ==
    /\ probe.fn = "fileSchema.size"
    /\ Returns(ParseSize(probe.arg))

NextPure ==
    \/ GetIdentifierFromUrlReturns
    \/ ValidateConfigReturns
    \/ SizeParses

\* One call of a pure function of the collector, for every input.
SpecPure == InitPure /\ [][NextPure]_vars

\* The string is https://archive.org/details/{id}, possibly followed by
\* further path segments: it starts with the scheme.
IsDetailsUrl(u) ==
    /\ Len(u) >= 5
    /\ SubSeq(u, 1, 4) = <<"https:", "", "archive.org", "details">>
    /\ u[5] # ""

\* C13: getIdentifierFromUrl returns exactly {id} for every string
\* https://archive.org/details/{id} with optional further path segments,
\* and null for every other string.
C13_IdentifierOnlyFromDetailsUrls ==
    (probe.fn = "getIdentifierFromUrl" /\ probe.done) =>
        probe.result = IF IsDetailsUrl(probe.arg)
                       THEN <<probe.arg[5]>> ELSE <<>>

\* The value is an object whose only key is url, and the url is exactly
\* https://archive.org/details/<id> or https://archive.org/metadata/<id>.
IsCanonicalConfig(value) ==
    /\ value.t = "object"
    /\ DOMAIN value.v = {"url"}
    /\ value.v.url.t = "string"
    /\ \E kind \in {"details", "metadata"}, id \in UrlSegments \ {""} :
          value.v.url.v = Url(kind, <<id>>)

\* C14: validateConfig returns the normalized config exactly for the
\* objects whose only field is url with a url of the canonical shape, and
\* the rejected signal for every other value.
C14_OnlyCanonicalConfigs ==
    (probe.fn = "validateConfig" /\ probe.done) =>
        probe.result = IF IsCanonicalConfig(probe.arg)
                       THEN <<[url |-> probe.arg.v.url.v]>> ELSE <<>>

C14_Witness ==
    /\ probe.fn = "validateConfig" /\ probe.done
    /\ probe.arg = JsObject([url |-> JsString(CfgMetadata.url)])
    /\ probe.result = <<CfgMetadata>>

\* The extension of a remote file name: what follows its last ".", and
\* nothing when the name has no ".".
Extension(name) == IF Len(name) > 1 THEN Last(name) ELSE ""

\* C15: every Document has a local path under outputDir that no other
\* Document has, and the extension of the path is the extension of the
\* remote file it was created for.
C15_FreshPathKeepsExtension ==
    /\ \A i, j \in DOMAIN docs : docs[i].path = docs[j].path => i = j
    /\ \A i \in DOMAIN docs : docs[i].path.dir = OutputDir
    /\ \A r \in 1..Len(fileReqs) :
          fileReqs[r].path.ext = Extension(fileReqs[r].name)

\* Batch b is in or past the loop of downloadFiles.
InLoop(b) ==
    \/ bpc[b] \in {"create", "stream", "ready", "catch", "returned"}
    \/ bpc[b] = "thrown" /\ err[b] = ErrPersistence

\* C16: an invocation of downloadFiles issues one metadata request, at its
\* start, and its file list and every download URL come from the response
\* to that request, whatever an earlier invocation fetched.
C16_SnapshotPerInvocation ==
    \A b \in Batches :
        /\ Len(MetaRequestsOf(b)) <= 1
        /\ InLoop(b) =>
              /\ Len(MetaRequestsOf(b)) = 1
              /\ metaResp[b].kind = "json"
              /\ archiveData[b].server = metaResp[b].body.server
              /\ archiveData[b].dir = metaResp[b].body.dir
              /\ Names(files[b]) = ExpectedNames(b)
              /\ \A r \in DOMAIN RequestsOf(b) :
                    RequestsOf(b)[r].url =
                        <<"https://", metaResp[b].body.server,
                          metaResp[b].body.dir, "/", RequestsOf(b)[r].name>>

C16_Witness ==
    \E b \in Batches :
        /\ Len(past) = 1
        /\ past[1] # NoData
        /\ bpc[b] = "returned"
        /\ past[1].server # metaResp[b].body.server
        /\ Len(past[1].files) # Len(metaResp[b].body.files)
        /\ Len(RequestsOf(b)) = 2
        /\ RequestsOf(b)[2].url[2] = metaResp[b].body.server

\* The string is a numeral: one digit or more and nothing else.
IsNumeral(cs) == cs # <<>> /\ \A i \in DOMAIN cs : cs[i] \in Digits

IsInteger(x) == x.t = "number" /\ DOMAIN x = {"t", "v"}

\* C17: a size that is a numeric string becomes the integer it denotes, a
\* number stays as it is, an absent size stays absent, and every size that
\* the schema lets through is an integer afterwards.
C17_SizeIsNormalizedToInteger ==
    (probe.fn = "fileSchema.size" /\ probe.done) =>
        /\ (probe.arg.t = "string" /\ IsNumeral(probe.arg.v)) =>
              probe.result = JsNumber(DecimalValue(probe.arg.v))
        /\ probe.arg.t = "number" => probe.result = probe.arg
        /\ probe.arg.t = "undefined" <=> probe.result = JsUndefined
        /\ probe.result \notin {JsUndefined, ZodError} => IsInteger(probe.result)

\* C18: the URL downloadFile requests for a file is "https://", the server
\* of the snapshot, its dir, "/" and the name of the file, in this order and
\* with nothing else.
C18_DownloadUrlIsConcatenation ==
    \A r \in DOMAIN fileReqs :
        LET req == fileReqs[r]
        IN req.url = <<"https://", archiveData[req.batch].server,
                       archiveData[req.batch].dir, "/", req.name>>

C18_Witness ==
    \E r \in DOMAIN fileReqs :
        fileReqs[r].url = <<"https://", "ia600.us.archive.org", "/12/items/foo",
                            "/", <<"notes", "txt">>>>

\* C19: a config that validateConfig accepts passes the identifier
\* resolution of downloadFiles: getIdentifierFromUrl returns the <id> of its
\* url and the batch never ends with the invalid-URL error.
C19_AcceptedConfigResolves ==
    \A b \in Batches :
        (bpc[b] # "idle" /\ validateConfig(args[b].config) # <<>>) =>
            /\ getIdentifierFromUrl(args[b].config.url)
                  = <<Last(args[b].config.url)>>
            /\ ~(bpc[b] = "thrown" /\ err[b] = ErrInvalidUrl)

\* The paths in a sequence of paths.
Range(seq) == {seq[i] : i \in DOMAIN seq}

\* C20: when downloadFiles has returned, none of its Documents is still
\* DOWNLOADING, and a path is in successful exactly when the Document with
\* that path is READY.
C20_ResultAgreesWithStatuses ==
    \A b \in Batches :
        bpc[b] = "returned" =>
            \A i \in DOMAIN docs :
                /\ docs[i].status # "DOWNLOADING"
                /\ docs[i].path \in Range(successful[b])
                      <=> docs[i].status = "READY"

\* The batch whose db.document.create returned the Document id.
CreatorOf(log, id) ==
    CHOOSE b \in Batches :
        \E i \in DOMAIN log :
            log[i].op = "create" /\ log[i].ok /\ log[i].id = id
              /\ log[i].batch = b

\* The step from the unprimed to the primed state changes the status of a
\* Document only by an update that the batch that created it issued.
OwnDocumentsStep ==
    \A i \in DOMAIN docs :
        docs'[i].status # docs[i].status =>
            /\ Len(dbLog') = Len(dbLog) + 1
            /\ Last(dbLog').op = "update" /\ Last(dbLog').ok
            /\ Last(dbLog').id = docs[i].id
            /\ Last(dbLog').status = docs'[i].status
            /\ Last(dbLog').batch = CreatorOf(dbLog, docs[i].id)

\* Once the batch that created a Document has ended, without a rejected
\* persistence call of its own, the status of the Document is the outcome of
\* the stream attempt that batch made for it.
FinalStatuses(d, log, att, pc) ==
    \A i \in DOMAIN d :
        LET b == CreatorOf(log, d[i].id)
        IN (pc[b] \in {"returned", "thrown"}
              /\ ~\E k \in DOMAIN log : log[k].batch = b /\ ~log[k].ok) =>
               \E k \in DOMAIN att[b] :
                   /\ att[b][k].path = d[i].path
                   /\ d[i].status = "READY" <=> att[b][k].outcome = "streamed"
                   /\ d[i].status = "ERROR" <=> att[b][k].outcome = "streamfailed"

\* C21: when two batches interleave, the status of a Document is changed
\* only by the batch that created it, and the final status of every
\* Document is the outcome of its own stream attempt.
C21_BatchesUpdateOnlyTheirOwn ==
    [][OwnDocumentsStep /\ FinalStatuses(docs', dbLog', attempts', bpc')]_vars

C21_Witness ==
    /\ bpc["t1"] = "returned" /\ bpc["t2"] = "returned"
    /\ args["t1"].sourceId = args["t2"].sourceId
    /\ ~DbRejected("t1") /\ ~DbRejected("t2")
    /\ Len(docs) = 4
    /\ \E i, j, k \in DOMAIN dbLog :
          /\ i < j /\ j < k
          /\ dbLog[i].op = "create" /\ dbLog[i].batch = "t2"
          /\ dbLog[j].op = "create" /\ dbLog[j].batch = "t1"
          /\ dbLog[k].op = "update" /\ dbLog[k].batch = "t2"
          /\ dbLog[k].id = dbLog[i].id /\ dbLog[k].status = "ERROR"
    /\ \E i \in DOMAIN docs :
          docs[i].status = "READY" /\ CreatorOf(dbLog, docs[i].id) = "t1"

\* C22: when every request settles, a downloadFiles call that has started
\* eventually ends in one of two ways: it throws a pre-flight error, or it
\* returns after the last selected file.
C22_EndsPreflightOrReturns ==
    \A b \in OneBatch :
        (bpc[b] # "idle") ~>
            \/ bpc[b] = "thrown" /\ err[b] \in PreflightErrors
            \/ bpc[b] = "returned" /\ idx[b] = Len(files[b]) + 1
====
